---- MODULE Spec2Model ----
(***************************************************************************)
(* A model of the playback core of music-player: the Player of             *)
(* src-tauri/src/player.rs (resource lifecycle, seek-index queries,        *)
(* transport operations).                                                  *)
(*                                                                         *)
(* Option<T> is modelled as a sequence of length at most one: None is <<>> *)
(* and Some(x) is <<x>>.  PlayerResult<T> is a record [tag, val]: tag is   *)
(* "Ok" or the PlayerError variant's name, val the Ok value (0 for unit).  *)
(***************************************************************************)
EXTENDS Integers, Sequences, FiniteSets, TLC

\* ------------------------------------------------------------------ bounds
MaxTime == 2

MaxOffset == 2

MaxLen == 2

NumThreads == 2

MaxPlayers == 3

\* ------------------------------------------------------- program constants
MAX_FILE_SIZE_FOR_SEEK_INDEX == 1024 * 1024 * 50

\* ------------------------------------------------------------- vocabulary
None == <<>>

Some(x) == <<x>>

Ok(v) == [tag |-> "Ok", val |-> v]

Err(e) == [tag |-> e, val |-> 0]

Times == 0..MaxTime

Offsets == 0..MaxOffset

\* Sink volumes (f32 in the code): muted and full.
Volumes == {0, 1}

\* The files the environment offers to load_path / load_file.
Files == {"A", "B"}

\* What fs metadata can report as a file's length: below, at and above the
\* ceiling of the seek index.
FileSizes ==
    { MAX_FILE_SIZE_FOR_SEEK_INDEX - 1,
      MAX_FILE_SIZE_FOR_SEEK_INDEX,
      MAX_FILE_SIZE_FOR_SEEK_INDEX + 1 }

\* What the analyzer reports as the duration of file f (when it succeeds).
AnalyzerDuration(f) == IF f = "A" THEN 1 ELSE 2

\* The sample table the analyzer builds for file f (when it succeeds).
AnalyzerSeekIndex(f) ==
    IF f = "A" THEN << <<0, 0>>, <<1, 1>> >>
               ELSE << <<0, 0>>, <<1, 1>>, <<2, 2>> >>

\* Sample tables of at most MaxLen samples, non-decreasing in both fields.
IsMonotonic(idx) ==
    \A i \in 1..(Len(idx) - 1) :
        /\ idx[i][1] <= idx[i + 1][1]
        /\ idx[i][2] <= idx[i + 1][2]

MonotonicTables ==
    { idx \in UNION { [1..n -> Times \X Offsets] : n \in 0..MaxLen } :
        IsMonotonic(idx) }

\* ------------------------------------------------------------------ state
VARIABLES
    file_handle,   \* Player.file_handle : Option<File>, the file it is open on
    duration,      \* Player.duration    : Option<Duration>
    seek_index,    \* Player.seek_index  : Option<Vec<(Duration, u64)>>
    sink,          \* Player.sink        : queue of appended sources, paused, volume
    cursor,        \* position of the open file description behind file_handle
    pc,            \* where the (single) in-flight async load is suspended
    loading,       \* the file (path) the in-flight / last load was given
    ext,           \* outcomes of the external capabilities in the last load
    prior,         \* history: the Player's fields when the last load was invoked
    result,        \* the last operation and what it returned
    players,       \* Music.players : key -> the Arc<RwLock<Player>> stored (0: none)
    strong,        \* the strong count of each Player's Arc
    dropped,       \* the Players that were destroyed
    next_id,       \* the identity the next Player::new() gets
    thr,           \* each caller: what it holds and what it is running
    last           \* history: the last add_player / remove_player

playervars ==
    << file_handle, duration, seek_index, sink, cursor, pc, loading, ext,
       prior, result >>

regvars == << players, strong, dropped, next_id, thr, last >>

vars == << playervars, regvars >>

Suspended == { "open", "try_clone", "get_duration", "metadata",
               "get_seek_index", "into_std" }

\* Outcomes of one load's external calls; "-" is "not called".
ExtNone ==
    [ open |-> "-", clone |-> "-", dur |-> "-", durVal |-> None,
      meta |-> "-", size |-> 0, idx |-> "-", idxVal |-> None,
      handle |-> "-", rewind |-> "-", decode |-> "-" ]

Returned(op, arg, r) == [op |-> op, arg |-> arg, tag |-> r.tag, val |-> r.val]

\* --------------------------------------------------------------- observers
is_file_loaded == file_handle # None

is_seekable == is_file_loaded /\ seek_index # None

\* ------------------------------------------------------ seek-index queries
RECURSIVE ScanTime(_, _, _, _)
ScanTime(idx, i, time, offset) ==
    IF i > Len(idx) THEN offset
    ELSE IF idx[i][1] > time THEN offset
    ELSE ScanTime(idx, i + 1, time, idx[i][2])

RECURSIVE ScanTimeFlipped(_, _, _, _)
ScanTimeFlipped(idx, i, time, offset) ==
    IF i > Len(idx) THEN offset
    ELSE IF idx[i][1] < time THEN offset
    ELSE ScanTimeFlipped(idx, i + 1, time, idx[i][2])

\* Mutant: the scan's comparison is flipped, it breaks at `frame_time < time`.
get_bytes_offset_for_time_flipped(index, time) ==
    IF index = None THEN Err("NoSeekIndex")
    ELSE Ok(ScanTimeFlipped(index[1], 1, time, 0))

RECURSIVE ScanTimeStrict(_, _, _, _)
ScanTimeStrict(idx, i, time, offset) ==
    IF i > Len(idx) THEN offset
    ELSE IF idx[i][1] >= time THEN offset
    ELSE ScanTimeStrict(idx, i + 1, time, idx[i][2])

\* Mutant: the scan breaks at `frame_time >= time`.
get_bytes_offset_for_time_strict(index, time) ==
    IF index = None THEN Err("NoSeekIndex")
    ELSE Ok(ScanTimeStrict(index[1], 1, time, 0))

get_bytes_offset_for_time(index, time) ==
    IF index = None THEN Err("NoSeekIndex")
    ELSE Ok(ScanTime(index[1], 1, time, 0))

RECURSIVE ScanOffset(_, _, _, _)
ScanOffset(idx, i, offset, time) ==
    IF i > Len(idx) THEN time
    ELSE IF idx[i][2] > offset THEN time
    ELSE ScanOffset(idx, i + 1, offset, idx[i][1])

RECURSIVE ScanOffsetStrict(_, _, _, _)
ScanOffsetStrict(idx, i, offset, time) ==
    IF i > Len(idx) THEN time
    ELSE IF idx[i][2] >= offset THEN time
    ELSE ScanOffsetStrict(idx, i + 1, offset, idx[i][1])

\* Mutant: the scan breaks at `frame_offset >= offset`.
get_time_for_bytes_offset_strict(index, offset) ==
    IF index = None THEN Err("NoSeekIndex")
    ELSE Ok(ScanOffsetStrict(index[1], 1, offset, 0))

get_time_for_bytes_offset(index, offset) ==
    IF index = None THEN Err("NoSeekIndex")
    ELSE Ok(ScanOffset(index[1], 1, offset, 0))

\* --------------------------------------------------------------- registry
\* The keys callers use, the callers, and the identities of the Players made.
Keys == {"a", "b"}

Threads == 1..NumThreads

\* The two callers that work on the map itself: one can be inside
\* list_players while the other inserts and removes.
Callers == {1, 2}

PlayerIds == 1..MaxPlayers

\* A caller holding nothing: no Arc from get_player, no guard, no list.
ThreadIdle ==
    [mode |-> "idle", ref |-> 0, op |-> "-", todo |-> {}, snap |-> {}, seen |-> {}]

\* Music::new(): an empty map
RegistryNew ==
    /\ players = [k \in Keys |-> 0]
    /\ strong = [p \in PlayerIds |-> 0]
    /\ dropped = {}
    /\ next_id = 1
    /\ thr = [t \in Threads |-> ThreadIdle]
    /\ last = [op |-> "new", key |-> "a", old |-> 0, new |-> 0]

\* ------------------------------------------------------------------- Init
SinkNew == [queue |-> <<>>, paused |-> FALSE, volume |-> 1]

Init ==
    /\ file_handle = None
    /\ duration = None
    /\ seek_index = None
    /\ sink = SinkNew
    /\ cursor = 0
    /\ pc = "idle"
    /\ loading = "A"
    /\ ext = ExtNone
    /\ prior = [file_handle |-> None, seek_index |-> None, queue |-> <<>>]
    /\ result = [op |-> "new", arg |-> 0, tag |-> "Ok", val |-> 0]
    /\ RegistryNew

\* -------------------------------------------------------------- operations
Snapshot ==
    [file_handle |-> file_handle, seek_index |-> seek_index, queue |-> sink.queue]

\* Sink::stop empties the queue of appended sources.
SinkStop(s) == [s EXCEPT !.queue = <<>>]

\* Mutant: stop forgets to clear the cached duration.
stop_effect_keeps_duration ==
    /\ UNCHANGED duration
    /\ seek_index' = None
    /\ file_handle' = None
    /\ sink' = SinkStop(sink)
    /\ cursor' = 0

\* Mutant: stop forgets to clear the seek index.
stop_effect_keeps_index ==
    /\ duration' = None
    /\ UNCHANGED seek_index
    /\ file_handle' = None
    /\ sink' = SinkStop(sink)
    /\ cursor' = 0

\* The body of Player::stop; dropping the handle closes the file description.
stop_effect ==
    /\ duration' = None
    /\ seek_index' = None
    /\ file_handle' = None
    /\ sink' = SinkStop(sink)
    /\ cursor' = 0

stop ==
    /\ pc = "idle"
    /\ stop_effect
    /\ result' = Returned("stop", 0, Ok(0))
    /\ UNCHANGED << pc, loading, ext, prior >>
    /\ UNCHANGED regvars

play ==
    /\ pc = "idle"
    /\ sink' = [sink EXCEPT !.paused = FALSE]
    /\ result' = Returned("play", 0, Ok(0))
    /\ UNCHANGED << file_handle, duration, seek_index, cursor, pc, loading, ext, prior >>
    /\ UNCHANGED regvars

pause ==
    /\ pc = "idle"
    /\ sink' = [sink EXCEPT !.paused = TRUE]
    /\ result' = Returned("pause", 0, Ok(0))
    /\ UNCHANGED << file_handle, duration, seek_index, cursor, pc, loading, ext, prior >>
    /\ UNCHANGED regvars

set_volume(volume) ==
    /\ pc = "idle"
    /\ sink' = [sink EXCEPT !.volume = volume]
    /\ result' = Returned("set_volume", volume, Ok(0))
    /\ UNCHANGED << file_handle, duration, seek_index, cursor, pc, loading, ext, prior >>
    /\ UNCHANGED regvars

get_std_file_handle(handle) ==
    IF handle = None THEN Err("NoFileHandle") ELSE Ok(0)

\* Mutant: seek asks for the file handle before it resolves the offset.
seek_target_handle_first(index, handle, time_offset) ==
    IF get_std_file_handle(handle).tag # "Ok"
    THEN get_std_file_handle(handle)
    ELSE get_bytes_offset_for_time(index, time_offset)

\* The two fallible lookups at the head of Player::seek, in the code's order:
\* the byte offset to move to, or the error the `?` returns.
seek_target(index, handle, time_offset) ==
    LET bytes_offset == get_bytes_offset_for_time(index, time_offset)
    IN  IF bytes_offset.tag # "Ok" THEN bytes_offset
        ELSE IF get_std_file_handle(handle).tag # "Ok"
             THEN get_std_file_handle(handle)
             ELSE bytes_offset

\* Mutant: seek repositions with SeekFrom::Current(bytes_offset).
seek_relative(time_offset) ==
    /\ pc = "idle"
    /\ LET target == seek_target(seek_index, file_handle, time_offset)
       IN  \E io \in {"Ok", "Err"} :
             /\ target.tag # "Ok" => io = "Ok"
             /\ IF target.tag # "Ok"
                THEN /\ result' = Returned("seek", time_offset, target)
                     /\ UNCHANGED cursor
                ELSE IF io = "Err"
                THEN /\ result' = Returned("seek", time_offset, Err("NotAbleToSeek"))
                     /\ UNCHANGED cursor
                ELSE /\ result' = Returned("seek", time_offset, Ok(0))
                     /\ cursor' = cursor + target.val
    /\ UNCHANGED << file_handle, duration, seek_index, sink, pc, loading, ext, prior >>
    /\ UNCHANGED regvars

seek(time_offset) ==
    /\ pc = "idle"
    /\ LET target == seek_target(seek_index, file_handle, time_offset)
       IN  \E io \in {"Ok", "Err"} :
             /\ target.tag # "Ok" => io = "Ok"
             /\ IF target.tag # "Ok"
                THEN /\ result' = Returned("seek", time_offset, target)
                     /\ UNCHANGED cursor
                ELSE IF io = "Err"
                THEN /\ result' = Returned("seek", time_offset, Err("NotAbleToSeek"))
                     /\ UNCHANGED cursor
                ELSE /\ result' = Returned("seek", time_offset, Ok(0))
                     /\ cursor' = target.val
    /\ UNCHANGED << file_handle, duration, seek_index, sink, pc, loading, ext, prior >>
    /\ UNCHANGED regvars

\* Mutant: elapsed reads the position with SeekFrom::Start(0), which rewinds.
elapsed_rewinds ==
    /\ pc = "idle"
    /\ \E io \in {"Ok", "Err"} :
         /\ file_handle = None => io = "Ok"
         /\ result' =
              IF get_std_file_handle(file_handle).tag # "Ok"
              THEN Returned("elapsed", 0, get_std_file_handle(file_handle))
              ELSE IF io = "Err"
              THEN Returned("elapsed", 0, Err("NotAbleToSeek"))
              ELSE Returned("elapsed", 0, get_time_for_bytes_offset(seek_index, 0))
         /\ cursor' = IF file_handle # None /\ io = "Ok" THEN 0 ELSE cursor
    /\ UNCHANGED << file_handle, duration, seek_index, sink, pc, loading, ext, prior >>
    /\ UNCHANGED regvars

elapsed ==
    /\ pc = "idle"
    /\ \E io \in {"Ok", "Err"} :
         /\ file_handle = None => io = "Ok"
         /\ result' =
              IF get_std_file_handle(file_handle).tag # "Ok"
              THEN Returned("elapsed", 0, get_std_file_handle(file_handle))
              ELSE IF io = "Err"
              THEN Returned("elapsed", 0, Err("NotAbleToSeek"))
              ELSE Returned("elapsed", 0, get_time_for_bytes_offset(seek_index, cursor))
    /\ UNCHANGED << file_handle, duration, seek_index, sink, cursor, pc, loading, ext, prior >>
    /\ UNCHANGED regvars

\* The decoder appended to the sink reads on through the file description it
\* shares with file_handle while the sink plays.
decoder_read ==
    /\ sink.queue # <<>>
    /\ ~sink.paused
    /\ \E c \in Offsets : c > cursor /\ cursor' = c
    /\ UNCHANGED << file_handle, duration, seek_index, sink, pc, loading, ext, prior, result >>
    /\ UNCHANGED regvars

\* ------------------------------------------------------------------- load
\* A load ends (returns, or unwinds from a failed unwrap) with `tag`.
LoadEnds(tag) ==
    /\ pc' = "idle"
    /\ result' = [result EXCEPT !.tag = tag]

LoadBegins(op, f) ==
    /\ loading' = f
    /\ prior' = Snapshot
    /\ result' = [op |-> op, arg |-> 0, tag |-> "pending", val |-> 0]

\* load_path up to its first suspension point, tokio::fs::File::open(path).await
load_path(path) ==
    /\ pc = "idle"
    /\ LoadBegins("load_path", path)
    /\ pc' = "open"
    /\ ext' = ExtNone
    /\ UNCHANGED << file_handle, duration, seek_index, sink, cursor >>
    /\ UNCHANGED regvars

\* File::open resolves: Err returns UnableToOpenFile, Ok enters load_file, which
\* runs self.stop() and suspends in file.try_clone().await
load_path_open ==
    /\ pc = "open"
    /\ \/ /\ ext' = [ext EXCEPT !.open = "Err"]
          /\ LoadEnds("UnableToOpenFile")
          /\ UNCHANGED << file_handle, duration, seek_index, sink, cursor >>
       \/ /\ ext' = [ext EXCEPT !.open = "Ok"]
          /\ stop_effect
          /\ pc' = "try_clone"
          /\ UNCHANGED result
    /\ UNCHANGED << loading, prior >>
    /\ UNCHANGED regvars

\* load_file called directly with an open file: self.stop(), then suspends in
\* file.try_clone().await
load_file(file) ==
    /\ pc = "idle"
    /\ LoadBegins("load_file", file)
    /\ stop_effect
    /\ pc' = "try_clone"
    /\ ext' = ExtNone
    /\ UNCHANGED regvars

\* file.try_clone().await.unwrap()
load_file_try_clone ==
    /\ pc = "try_clone"
    /\ \/ /\ ext' = [ext EXCEPT !.clone = "Ok"]
          /\ pc' = "get_duration"
          /\ UNCHANGED result
       \/ /\ ext' = [ext EXCEPT !.clone = "Err"]
          /\ LoadEnds("panic")
    /\ UNCHANGED << file_handle, duration, seek_index, sink, cursor, loading, prior >>
    /\ UNCHANGED regvars

\* Mutant: a failed duration analysis is returned as UnableToGetDuration.
load_file_get_duration_propagates ==
    /\ pc = "get_duration"
    /\ \/ /\ duration' = Some(AnalyzerDuration(loading))
          /\ ext' = [ext EXCEPT !.dur = "Ok", !.durVal = Some(AnalyzerDuration(loading))]
          /\ pc' = "metadata"
          /\ UNCHANGED result
       \/ /\ UNCHANGED duration
          /\ ext' = [ext EXCEPT !.dur = "Err"]
          /\ LoadEnds("UnableToGetDuration")
    /\ UNCHANGED << file_handle, seek_index, sink, cursor, loading, prior >>
    /\ UNCHANGED regvars

\* self.duration = match analyzer.get_duration().await { Ok(d) => Some(d), Err(_) => None }
load_file_get_duration ==
    /\ pc = "get_duration"
    /\ \/ /\ duration' = Some(AnalyzerDuration(loading))
          /\ ext' = [ext EXCEPT !.dur = "Ok", !.durVal = Some(AnalyzerDuration(loading))]
       \/ /\ duration' = None
          /\ ext' = [ext EXCEPT !.dur = "Err"]
    /\ pc' = "metadata"
    /\ UNCHANGED << file_handle, seek_index, sink, cursor, loading, prior, result >>
    /\ UNCHANGED regvars

\* Mutant: the seek index is built whatever the file's size.
load_file_metadata_no_ceiling ==
    /\ pc = "metadata"
    /\ \/ \E file_size \in FileSizes :
            /\ ext' = [ext EXCEPT !.meta = "Ok", !.size = file_size]
            /\ pc' = "get_seek_index"
            /\ UNCHANGED result
       \/ /\ ext' = [ext EXCEPT !.meta = "Err"]
          /\ LoadEnds("panic")
    /\ UNCHANGED << file_handle, duration, seek_index, sink, cursor, loading, prior >>
    /\ UNCHANGED regvars

\* let file_size = file.metadata().await.unwrap().len();
\* if file_size <= MAX_FILE_SIZE_FOR_SEEK_INDEX { ...get_seek_index().await... }
load_file_metadata ==
    /\ pc = "metadata"
    /\ \/ \E file_size \in FileSizes :
            /\ ext' = [ext EXCEPT !.meta = "Ok", !.size = file_size]
            /\ pc' = IF file_size <= MAX_FILE_SIZE_FOR_SEEK_INDEX
                     THEN "get_seek_index" ELSE "into_std"
            /\ UNCHANGED result
       \/ /\ ext' = [ext EXCEPT !.meta = "Err"]
          /\ LoadEnds("panic")
    /\ UNCHANGED << file_handle, duration, seek_index, sink, cursor, loading, prior >>
    /\ UNCHANGED regvars

\* self.seek_index = match analyzer.get_seek_index().await { Ok(i) => Some(i), Err(_) => None }
load_file_get_seek_index ==
    /\ pc = "get_seek_index"
    /\ \/ /\ seek_index' = Some(AnalyzerSeekIndex(loading))
          /\ ext' = [ext EXCEPT !.idx = "Ok", !.idxVal = Some(AnalyzerSeekIndex(loading))]
       \/ /\ seek_index' = None
          /\ ext' = [ext EXCEPT !.idx = "Err"]
    /\ pc' = "into_std"
    /\ UNCHANGED << file_handle, duration, sink, cursor, loading, prior, result >>
    /\ UNCHANGED regvars

\* file.into_std().await resolves and the rest of load_file runs to its end:
\* std_file.try_clone() (Err returns UnableToCloneFileHandle), the rewind
\* .unwrap(), Decoder::new(..).unwrap(), sink.append(source).  The analyzer
\* and the decoder read through descriptions that share file_handle's cursor,
\* so only a successful rewind fixes it, and the decoder's reads move it on.
load_file_finish ==
    /\ pc = "into_std"
    /\ \/ /\ ext' = [ext EXCEPT !.handle = "Err"]
          /\ LoadEnds("UnableToCloneFileHandle")
          /\ UNCHANGED << file_handle, sink, cursor >>
       \/ /\ file_handle' = Some(loading)
          /\ \/ /\ ext' = [ext EXCEPT !.handle = "Ok", !.rewind = "Err"]
                /\ cursor' \in Offsets
                /\ LoadEnds("panic")
                /\ UNCHANGED sink
             \/ /\ ext' = [ext EXCEPT !.handle = "Ok", !.rewind = "Ok", !.decode = "Err"]
                /\ cursor' \in Offsets
                /\ LoadEnds("panic")
                /\ UNCHANGED sink
             \/ /\ ext' = [ext EXCEPT !.handle = "Ok", !.rewind = "Ok", !.decode = "Ok"]
                /\ cursor' \in Offsets
                /\ sink' = [sink EXCEPT !.queue = Append(@, loading)]
                /\ LoadEnds("Ok")
    /\ UNCHANGED << duration, seek_index, loading, prior >>
    /\ UNCHANGED regvars

\* The caller drops the load's future at a suspension point.
abandon ==
    /\ pc \in Suspended
    /\ LoadEnds("abandoned")
    /\ UNCHANGED << file_handle, duration, seek_index, sink, cursor, loading, ext, prior >>
    /\ UNCHANGED regvars

\* ------------------------------------------------------------ specification
Next ==
    \/ \E path \in Files : load_path(path)
    \/ load_path_open
    \/ \E file \in Files : load_file(file)
    \/ load_file_try_clone
    \/ load_file_get_duration
    \/ load_file_metadata
    \/ load_file_get_seek_index
    \/ load_file_finish
    \/ abandon
    \/ \E t \in Times : seek(t)
    \/ elapsed
    \/ play
    \/ pause
    \/ stop
    \/ \E v \in Volumes : set_volume(v)
    \/ decoder_read

Spec == Init /\ [][Next]_vars

\* ------------------------------------------- the seek-index queries alone
\* A Player loaded with file "A" for which the analyzer produced any sample
\* table non-decreasing in both fields, or none.
InitQuery ==
    /\ seek_index \in {None} \cup { Some(idx) : idx \in MonotonicTables }
    /\ file_handle = Some("A")
    /\ duration = Some(AnalyzerDuration("A"))
    /\ sink = [SinkNew EXCEPT !.queue = <<"A">>]
    /\ cursor = 0
    /\ pc = "idle"
    /\ loading = "A"
    /\ ext = [ExtNone EXCEPT !.clone = "Ok", !.dur = "Ok",
                             !.durVal = Some(AnalyzerDuration("A")),
                             !.meta = "Ok", !.size = MAX_FILE_SIZE_FOR_SEEK_INDEX,
                             !.idx = IF seek_index = None THEN "Err" ELSE "Ok",
                             !.idxVal = seek_index,
                             !.handle = "Ok", !.rewind = "Ok", !.decode = "Ok"]
    /\ prior = [file_handle |-> None, seek_index |-> None, queue |-> <<>>]
    /\ result = [op |-> "load_file", arg |-> 0, tag |-> "Ok", val |-> 0]
    /\ RegistryNew

call_get_bytes_offset_for_time(time) ==
    /\ result' = Returned("get_bytes_offset_for_time", time,
                          get_bytes_offset_for_time(seek_index, time))
    /\ UNCHANGED << file_handle, duration, seek_index, sink, cursor, pc, loading, ext, prior >>
    /\ UNCHANGED regvars

call_get_time_for_bytes_offset(offset) ==
    /\ result' = Returned("get_time_for_bytes_offset", offset,
                          get_time_for_bytes_offset(seek_index, offset))
    /\ UNCHANGED << file_handle, duration, seek_index, sink, cursor, pc, loading, ext, prior >>
    /\ UNCHANGED regvars

NextQuery ==
    \/ \E time \in Times : call_get_bytes_offset_for_time(time)
    \/ \E offset \in Offsets : call_get_time_for_bytes_offset(offset)

SpecQuery == InitQuery /\ [][NextQuery]_vars

\* ------------------------------------------------------ registry operations
\* Player's methods by receiver: `&mut self` needs the RwLock's write guard,
\* `&self` runs under a read guard.
ExclusiveOps ==
    {"load_path", "load_file", "seek", "play", "pause", "stop", "set_volume"}

SharedOps == {"is_file_loaded", "is_seekable", "elapsed", "duration", "volume"}

\* Mutation: seek takes &self and runs under a read guard.
NeedsWrite_seek_shared(op) == op \in ExclusiveOps \ {"seek"}

\* A &mut self method needs the write guard, a &self method the read guard.
NeedsWrite(op) == op \in ExclusiveOps

\* The callers holding a read / the write guard of Player p's RwLock.
Readers(p) == { u \in Threads : thr[u].ref = p /\ thr[u].mode = "read" }

Writers(p) == { u \in Threads : thr[u].ref = p /\ thr[u].mode = "write" }

\* Mutation: one lock for the whole map instead of one per Player.
CanLock_global(p, exclusive) ==
    IF exclusive THEN \A q \in PlayerIds : Readers(q) = {} /\ Writers(q) = {}
                 ELSE \A q \in PlayerIds : Writers(q) = {}

\* RwLock<Player>: write() waits for every guard of this lock to be dropped,
\* read() for its write guard.
CanLock(p, exclusive) ==
    IF exclusive THEN Readers(p) = {} /\ Writers(p) = {}
                 ELSE Writers(p) = {}

\* Dropping one Arc clone of each Player in ps: the last one destroys it.
ArcDrop(ps) ==
    /\ strong' = [p \in PlayerIds |-> IF p \in ps THEN strong[p] - 1 ELSE strong[p]]
    /\ dropped' = dropped \cup { p \in ps : strong[p] = 1 }

\* History: the callers inside list_players note the map's new content.
Noted(new_players) ==
    [u \in Threads |->
        IF thr[u].mode = "listing"
        THEN [thr[u] EXCEPT !.seen = @ \cup {new_players}]
        ELSE thr[u]]

\* Mutation: insert only into a vacant key; on an occupied key the given
\* Player is dropped and the entry stays.
add_player_keeps_existing(t, key) ==
    /\ thr[t].mode = "idle"
    /\ next_id <= MaxPlayers
    /\ IF players[key] = 0
       THEN /\ players' = [players EXCEPT ![key] = next_id]
            /\ strong' = [strong EXCEPT ![next_id] = 1]
            /\ UNCHANGED dropped
       ELSE /\ UNCHANGED << players, strong >>
            /\ dropped' = dropped \cup {next_id}
    /\ next_id' = next_id + 1
    /\ last' = [op |-> "add", key |-> key, old |-> players[key], new |-> next_id]
    /\ thr' = Noted(players')
    /\ UNCHANGED playervars

\* self.players.insert(key, Arc::new(RwLock::new(player))), dropping the Arc
\* the key held before
add_player(t, key) ==
    /\ thr[t].mode = "idle"
    /\ next_id <= MaxPlayers
    /\ players' = [players EXCEPT ![key] = next_id]
    /\ strong' = [p \in PlayerIds |->
                    IF p = next_id THEN 1
                    ELSE IF p = players[key] THEN strong[p] - 1
                    ELSE strong[p]]
    /\ dropped' = dropped \cup { p \in {players[key]} \ {0} : strong[p] = 1 }
    /\ next_id' = next_id + 1
    /\ last' = [op |-> "add", key |-> key, old |-> players[key], new |-> next_id]
    /\ thr' = Noted(players')
    /\ UNCHANGED playervars

\* Mutation: remove destroys the Player it takes out of the map.
remove_player_destroys(t, key) ==
    /\ thr[t].mode = "idle"
    /\ players' = [players EXCEPT ![key] = 0]
    /\ strong' = [p \in PlayerIds |-> IF p = players[key] THEN 0 ELSE strong[p]]
    /\ dropped' = dropped \cup ({players[key]} \ {0})
    /\ last' = [op |-> "remove", key |-> key, old |-> players[key], new |-> 0]
    /\ thr' = Noted(players')
    /\ UNCHANGED << next_id, playervars >>

\* self.players.remove(key), dropping the Arc the key held
remove_player(t, key) ==
    /\ thr[t].mode = "idle"
    /\ players' = [players EXCEPT ![key] = 0]
    /\ ArcDrop({players[key]} \ {0})
    /\ last' = [op |-> "remove", key |-> key, old |-> players[key], new |-> 0]
    /\ thr' = Noted(players')
    /\ UNCHANGED << next_id, playervars >>

\* self.players.get(key).map(|entry| Arc::clone(entry.value()))
get_player(t, key) ==
    /\ thr[t].mode = "idle"
    /\ IF players[key] = 0
       THEN UNCHANGED << strong, thr >>
       ELSE /\ strong' = [strong EXCEPT ![players[key]] = @ + 1]
            /\ thr' = [thr EXCEPT ![t] = [@ EXCEPT !.mode = "ref", !.ref = players[key]]]
    /\ UNCHANGED << players, dropped, next_id, last, playervars >>

\* The caller locks the Player it got and runs one of its methods under the
\* guard.
player_call(t, op) ==
    /\ thr[t].mode = "ref"
    /\ CanLock(thr[t].ref, NeedsWrite(op))
    /\ thr' = [thr EXCEPT ![t] =
                 [@ EXCEPT !.mode = IF NeedsWrite(op) THEN "write" ELSE "read",
                           !.op = op]]
    /\ UNCHANGED << players, strong, dropped, next_id, last, playervars >>

\* The method returns and the guard is dropped.
player_return(t) ==
    /\ thr[t].mode \in {"read", "write"}
    /\ thr' = [thr EXCEPT ![t] = [@ EXCEPT !.mode = "ref", !.op = "-"]]
    /\ UNCHANGED << players, strong, dropped, next_id, last, playervars >>

\* The caller drops the Arc it got from get_player.
player_release(t) ==
    /\ thr[t].mode = "ref"
    /\ ArcDrop({thr[t].ref})
    /\ thr' = [thr EXCEPT ![t] = ThreadIdle]
    /\ UNCHANGED << players, next_id, last, playervars >>

\* list_players is called: self.players.iter() starts with every shard ahead.
list_players(t) ==
    /\ thr[t].mode = "idle"
    /\ thr' = [thr EXCEPT ![t] =
                 [@ EXCEPT !.mode = "listing", !.todo = Keys, !.snap = {},
                           !.seen = {players}]]
    /\ UNCHANGED << players, strong, dropped, next_id, last, playervars >>

\* The iterator locks the next shard and clones what it holds now; after the
\* last shard collect() returns the Vec.
list_players_next(t) ==
    /\ thr[t].mode = "listing"
    /\ \E key \in thr[t].todo :
         /\ thr' = [thr EXCEPT ![t] =
                      [@ EXCEPT !.todo = @ \ {key},
                                !.snap = IF players[key] = 0 THEN @
                                         ELSE @ \cup {<<key, players[key]>>},
                                !.mode = IF thr[t].todo = {key}
                                         THEN "listed" ELSE "listing"]]
         /\ strong' = [p \in PlayerIds |->
                         IF p = players[key] THEN strong[p] + 1 ELSE strong[p]]
    /\ UNCHANGED << players, dropped, next_id, last, playervars >>

\* The caller drops the Vec list_players returned, and the Arcs in it.
list_release(t) ==
    /\ thr[t].mode = "listed"
    /\ ArcDrop({ e[2] : e \in thr[t].snap })
    /\ thr' = [thr EXCEPT ![t] = ThreadIdle]
    /\ UNCHANGED << players, next_id, last, playervars >>

NextRegistry ==
    \/ \E t \in Callers, key \in Keys : add_player(t, key)
    \/ \E t \in Callers, key \in Keys : remove_player(t, key)
    \/ \E t \in Callers, key \in Keys : get_player(t, key)
    \/ \E t \in Callers : player_release(t)
    \/ \E t \in Callers : list_players(t)
    \/ \E t \in Callers : list_players_next(t)
    \/ \E t \in Callers : list_release(t)

\* The registry alone: callers add, remove, get and list Players and drop
\* what they got.
SpecRegistry == Init /\ [][NextRegistry]_vars

\* ------------------------------------------------- locking of the Players
\* Two Players were added, under keys "a" and "b"; callers get them, lock
\* them and run their methods.
InitLocks ==
    /\ file_handle = None
    /\ duration = None
    /\ seek_index = None
    /\ sink = SinkNew
    /\ cursor = 0
    /\ pc = "idle"
    /\ loading = "A"
    /\ ext = ExtNone
    /\ prior = [file_handle |-> None, seek_index |-> None, queue |-> <<>>]
    /\ result = [op |-> "new", arg |-> 0, tag |-> "Ok", val |-> 0]
    /\ players = [k \in Keys |-> IF k = "a" THEN 1 ELSE 2]
    /\ strong = [p \in PlayerIds |-> IF p \in {1, 2} THEN 1 ELSE 0]
    /\ dropped = {}
    /\ next_id = 3
    /\ thr = [t \in Threads |-> ThreadIdle]
    /\ last = [op |-> "add", key |-> "b", old |-> 0, new |-> 2]

NextLocks ==
    \/ \E t \in Threads, key \in Keys : get_player(t, key)
    \/ \E t \in Threads, op \in ExclusiveOps \cup SharedOps : player_call(t, op)
    \/ \E t \in Threads : player_return(t)
    \/ \E t \in Threads : player_release(t)

SpecLocks == InitLocks /\ [][NextLocks]_vars

\* ------------------------------------------------------------------ claims
LoadOps == {"load_path", "load_file"}

\* A load has just ended with `tag` and nothing was called since.
LoadEnded == pc = "idle" /\ result.op \in LoadOps

\* C1: whenever a load has returned (Ok or any error), a present seek index
\* implies a present file handle.
C1_SeekIndexImpliesFileHandle ==
    (LoadEnded /\ result.tag \notin {"panic", "abandoned"}) =>
        (seek_index # None => file_handle # None)

\* C2: a load abandoned at a suspension point never leaves the Player with
\* the duration or the seek index set while no file handle is held.
C2_AbandonedLoadAllOrNothing ==
    (LoadEnded /\ result.tag = "abandoned") =>
        (file_handle = None => duration = None /\ seek_index = None)

\* C3: after a successful load of file B, whatever was loaded before, the
\* handle is B's and the duration and the seek index are exactly what the
\* analyzer produced for B in this load (absent when its analysis failed or
\* B is above the ceiling); nothing derived from another file survives.
C3_SecondLoadOnly ==
    (LoadEnded /\ result.tag = "Ok") =>
        /\ file_handle = Some(loading)
        /\ duration = ext.durVal
        /\ seek_index = ext.idxVal
        /\ ext.dur = "Err" => duration = None
        /\ (ext.idx = "Err" \/ ext.size > MAX_FILE_SIZE_FOR_SEEK_INDEX) =>
               seek_index = None
        /\ \A a \in Files \ {loading} :
               /\ file_handle # Some(a)
               /\ duration # Some(AnalyzerDuration(a))
               /\ seek_index # Some(AnalyzerSeekIndex(a))

\* C3 witness: file A was loaded successfully with a seek index, then B, above
\* the ceiling, was loaded successfully: B's duration, no index.
C3_Witness ==
    /\ LoadEnded /\ result.tag = "Ok"
    /\ prior.file_handle = Some("A") /\ prior.queue = <<"A">>
    /\ prior.seek_index = Some(AnalyzerSeekIndex("A"))
    /\ loading = "B"
    /\ ext.size > MAX_FILE_SIZE_FOR_SEEK_INDEX
    /\ file_handle = Some("B")
    /\ duration = Some(AnalyzerDuration("B"))
    /\ seek_index = None

\* The floor lookups, stated over the table as a whole.
LastAtOrBefore(idx, field, key) ==
    LET S == { i \in 1..Len(idx) : idx[i][field] <= key }
    IN  IF S = {} THEN 0 ELSE CHOOSE i \in S : \A j \in S : j <= i

FloorOffset(idx, time) ==
    IF LastAtOrBefore(idx, 1, time) = 0 THEN 0
    ELSE idx[LastAtOrBefore(idx, 1, time)][2]

FloorTime(idx, offset) ==
    IF LastAtOrBefore(idx, 2, offset) = 0 THEN 0
    ELSE idx[LastAtOrBefore(idx, 2, offset)][1]

\* C4: on a table non-decreasing in both fields the time-to-offset query
\* returns the byte offset of the last sample whose timestamp is <= the target,
\* 0 when there is none, and NoSeekIndex exactly when there is no index.
C4_TimeToOffsetIsFloor ==
    result.op = "get_bytes_offset_for_time" =>
        IF seek_index = None
        THEN result.tag = "NoSeekIndex"
        ELSE /\ result.tag = "Ok"
             /\ result.val = FloorOffset(seek_index[1], result.arg)

\* C4 witness: a two-sample table queried between its samples answers the
\* first sample's (non-zero) offset.
C4_Witness ==
    /\ result.op = "get_bytes_offset_for_time" /\ result.tag = "Ok"
    /\ seek_index # None
    /\ Len(seek_index[1]) = 2
    /\ seek_index[1][1][1] <= result.arg /\ result.arg < seek_index[1][2][1]
    /\ result.val = seek_index[1][1][2]
    /\ 0 < result.val /\ result.val < seek_index[1][2][2]

\* C5: on a table non-decreasing in both fields the offset-to-time query
\* returns the timestamp of the last sample whose byte offset is <= the cursor
\* offset, zero when there is none, and NoSeekIndex exactly when there is no
\* index.
C5_OffsetToTimeIsFloor ==
    result.op = "get_time_for_bytes_offset" =>
        IF seek_index = None
        THEN result.tag = "NoSeekIndex"
        ELSE /\ result.tag = "Ok"
             /\ result.val = FloorTime(seek_index[1], result.arg)

\* C5 witness: a two-sample table queried between its samples' offsets answers
\* the first sample's (non-zero) timestamp.
C5_Witness ==
    /\ result.op = "get_time_for_bytes_offset" /\ result.tag = "Ok"
    /\ seek_index # None
    /\ Len(seek_index[1]) = 2
    /\ seek_index[1][1][2] <= result.arg /\ result.arg < seek_index[1][2][2]
    /\ result.val = seek_index[1][1][1]
    /\ 0 < result.val /\ result.val < seek_index[1][2][1]

\* C6 as claimed: every sample (t, o) of a table non-decreasing in both fields
\* is a fixed point: the query at t answers o, the query at o answers t.
C6_RoundTripEverySample ==
    seek_index # None =>
        \A i \in 1..Len(seek_index[1]) :
            /\ (result.op = "get_bytes_offset_for_time"
                  /\ result.arg = seek_index[1][i][1])
               => (result.tag = "Ok" /\ result.val = seek_index[1][i][2])
            /\ (result.op = "get_time_for_bytes_offset"
                  /\ result.arg = seek_index[1][i][2])
               => (result.tag = "Ok" /\ result.val = seek_index[1][i][1])

\* C6 amended: a sample (t, o) is a fixed point of time-to-offset when no
\* later sample has timestamp t, and of offset-to-time when no later sample
\* has byte offset o.
C6_RoundTripLastOfTies ==
    seek_index # None =>
        \A i \in 1..Len(seek_index[1]) :
            /\ (/\ result.op = "get_bytes_offset_for_time"
                /\ result.arg = seek_index[1][i][1]
                /\ \A j \in (i + 1)..Len(seek_index[1]) :
                       seek_index[1][j][1] # seek_index[1][i][1])
               => (result.tag = "Ok" /\ result.val = seek_index[1][i][2])
            /\ (/\ result.op = "get_time_for_bytes_offset"
                /\ result.arg = seek_index[1][i][2]
                /\ \A j \in (i + 1)..Len(seek_index[1]) :
                       seek_index[1][j][2] # seek_index[1][i][2])
               => (result.tag = "Ok" /\ result.val = seek_index[1][i][1])

\* C6 witness: a table strictly increasing in both fields, queried at its
\* first sample's timestamp, answers that sample's (non-zero) offset.
C6_Witness ==
    /\ result.op = "get_bytes_offset_for_time" /\ result.tag = "Ok"
    /\ seek_index # None
    /\ Len(seek_index[1]) = 2
    /\ seek_index[1][1][1] < seek_index[1][2][1]
    /\ seek_index[1][1][2] < seek_index[1][2][2]
    /\ result.arg = seek_index[1][1][1]
    /\ result.val = seek_index[1][1][2]
    /\ result.val > 0

\* C7 as claimed: seek on a Player that holds no file handle fails with
\* NoFileHandle.
C7_SeekUnloadedIsNoFileHandle ==
    (pc = "idle" /\ result.op = "seek" /\ file_handle = None) =>
        result.tag = "NoFileHandle"

\* C7 amended: seek on a Player that holds no file handle fails, with
\* NoSeekIndex when the seek index is absent too (freshly constructed, after
\* stop) and with NoFileHandle only when a seek index is present.
C7_SeekUnloadedFails ==
    (pc = "idle" /\ result.op = "seek" /\ file_handle = None) =>
        result.tag = IF seek_index = None THEN "NoSeekIndex" ELSE "NoFileHandle"

\* C7 witness: a file was loaded, the Player stopped, and seek then failed
\* with NoSeekIndex.
C7_Witness ==
    /\ pc = "idle" /\ result.op = "seek"
    /\ file_handle = None /\ seek_index = None
    /\ ext.decode = "Ok"
    /\ result.arg = MaxTime
    /\ result.tag = "NoSeekIndex"

\* C8: when the decoder rejects the stream, load returns a typed error of the
\* UnableToOpenFile class instead of panicking.
C8_DecodeFailureIsTypedError ==
    (LoadEnded /\ ext.decode = "Err") => result.tag = "UnableToOpenFile"

\* C9: analyzer failures never fail a load.  A load that ended without Ok was
\* abandoned or one of the other capabilities failed; and when the source
\* opened, the handles cloned and the decoder accepted the stream, the load
\* returned Ok with the file loaded, duration() None exactly when duration
\* analysis failed, and is_seekable() false when index analysis failed.
C9_AnalyzerFailuresNeverFailLoad ==
    (LoadEnded /\ result.tag # "pending") =>
        /\ result.tag \notin {"Ok", "abandoned"} =>
               "Err" \in { ext.open, ext.clone, ext.meta, ext.handle,
                           ext.rewind, ext.decode }
        /\ (/\ ext.open # "Err" /\ ext.clone = "Ok"
            /\ ext.handle = "Ok" /\ ext.decode = "Ok")
           => /\ result.tag = "Ok"
              /\ is_file_loaded
              /\ duration = None <=> ext.dur = "Err"
              /\ ext.idx = "Err" => ~is_seekable

\* C9 witness: both analyses failed and the load returned Ok with the file
\* loaded, no duration and not seekable.
C9_Witness ==
    /\ LoadEnded /\ result.tag = "Ok"
    /\ ext.dur = "Err" /\ ext.idx = "Err"
    /\ is_file_loaded
    /\ duration = None
    /\ ~is_seekable

\* C10: while the file of a successful load whose size exceeded the ceiling is
\* loaded, is_seekable() is false and seek(t) fails with NoSeekIndex for every
\* t, whatever the Player held before that load.
C10_OverCeilingNotSeekable ==
    (/\ pc = "idle" /\ is_file_loaded
     /\ ext.decode = "Ok" /\ ext.size > MAX_FILE_SIZE_FOR_SEEK_INDEX)
    => /\ ~is_seekable
       /\ \A t \in Times :
              seek_target(seek_index, file_handle, t).tag = "NoSeekIndex"
       /\ result.op = "seek" => result.tag = "NoSeekIndex"

\* C10 witness: the Player held a file with a seek index, a file above the
\* ceiling was then loaded, its duration is Some, and seek failed with
\* NoSeekIndex.
C10_Witness ==
    /\ pc = "idle" /\ is_file_loaded
    /\ ext.decode = "Ok" /\ ext.size > MAX_FILE_SIZE_FOR_SEEK_INDEX
    /\ prior.file_handle # None /\ prior.seek_index # None
    /\ duration # None
    /\ result.op = "seek" /\ result.tag = "NoSeekIndex"

\* The Player is Empty: no file handle, no duration, no seek index.
PlayerEmpty == file_handle = None /\ duration = None /\ seek_index = None

\* C11: right after construction and right after stop() from any state the
\* Player is Empty (is_file_loaded() false, duration() None, is_seekable()
\* false), and stop() on an Empty Player changes nothing of it.
C11_EmptyAfterNewAndStop ==
    /\ [](result.op \in {"new", "stop"} =>
            /\ ~is_file_loaded
            /\ duration = None
            /\ ~is_seekable
            /\ PlayerEmpty)
    /\ [][(PlayerEmpty /\ stop) =>
            UNCHANGED << file_handle, duration, seek_index, sink, cursor >>]_vars

\* C11 witness: a file was loaded with duration and seek index, and stop()
\* left the Player Empty.
C11_Witness ==
    /\ result.op = "stop"
    /\ ext.decode = "Ok" /\ ext.dur = "Ok" /\ ext.idx = "Ok"
    /\ PlayerEmpty
    /\ ~is_seekable

\* C18 as claimed, its error cases: elapsed() fails with NoFileHandle when no
\* file is loaded and with NoSeekIndex when a file is loaded (by a load that
\* returned Ok) without an index.
C18_ElapsedObserverNoSeekIndex ==
    result.op = "elapsed" =>
        /\ file_handle = None => result.tag = "NoFileHandle"
        /\ (file_handle # None /\ sink.queue # <<>> /\ seek_index = None) =>
               result.tag = "NoSeekIndex"

\* C18 amended: elapsed() changes none of cursor, file handle, duration and
\* seek index in any outcome; it fails with NoFileHandle when no file is
\* loaded, and when a file is loaded without an index it fails with
\* NotAbleToSeek if reading the cursor position fails and with NoSeekIndex
\* otherwise.
C18_ElapsedObserver ==
    /\ [][elapsed =>
            UNCHANGED << cursor, file_handle, duration, seek_index >>]_vars
    /\ [](result.op = "elapsed" =>
            /\ result.tag \in {"Ok", "NoFileHandle", "NotAbleToSeek", "NoSeekIndex"}
            /\ file_handle = None => result.tag = "NoFileHandle"
            /\ (file_handle # None /\ seek_index = None) =>
                   result.tag \in {"NotAbleToSeek", "NoSeekIndex"}
            /\ result.tag = "NoFileHandle" => file_handle = None
            /\ result.tag = "NoSeekIndex" => seek_index = None
            /\ result.tag = "Ok" => is_seekable)

\* C18 witness: elapsed() returned Ok on a seekable Player whose cursor is
\* past the start, and the cursor is still there.
C18_Witness ==
    /\ result.op = "elapsed" /\ result.tag = "Ok"
    /\ is_seekable
    /\ cursor = MaxOffset
    /\ result.val > 0

\* C19: every load invoked on a Loaded Player, whatever its outcome, has
\* executed stop by its first suspension point: while load_path awaits the
\* open, and when it has returned UnableToOpenFile, the previous file's
\* handle, duration and index are released and its source is off the sink.
C19_LoadStopsFirst ==
    (/\ result.op \in LoadOps
     /\ prior.file_handle # None /\ prior.queue # <<>>
     /\ \/ pc = "open"
        \/ pc = "idle" /\ result.tag = "UnableToOpenFile")
    => PlayerEmpty /\ sink.queue = <<>>

\* C17: on every table non-decreasing in both fields, the time-to-offset query
\* is non-decreasing in the queried time and the offset-to-time query is
\* non-decreasing in the queried offset: the answer just returned is >= the
\* answer at every smaller key and <= the answer at every larger key.
C17_QueriesMonotonic ==
    /\ (result.op = "get_bytes_offset_for_time" /\ result.tag = "Ok") =>
           \A t \in Times :
               /\ t <= result.arg =>
                      get_bytes_offset_for_time(seek_index, t).val <= result.val
               /\ result.arg <= t =>
                      result.val <= get_bytes_offset_for_time(seek_index, t).val
    /\ (result.op = "get_time_for_bytes_offset" /\ result.tag = "Ok") =>
           \A o \in Offsets :
               /\ o <= result.arg =>
                      get_time_for_bytes_offset(seek_index, o).val <= result.val
               /\ result.arg <= o =>
                      result.val <= get_time_for_bytes_offset(seek_index, o).val

\* C17 witness: a query at a time strictly between two others answers an
\* offset strictly between theirs.
C17_Witness ==
    /\ result.op = "get_bytes_offset_for_time" /\ result.tag = "Ok"
    /\ \E t1, t2 \in Times :
           /\ t1 < result.arg /\ result.arg < t2
           /\ get_bytes_offset_for_time(seek_index, t1).val < result.val
           /\ result.val < get_bytes_offset_for_time(seek_index, t2).val

\* ------------------------------------------------- seek followed by elapsed
\* A paused Player loaded with file "A" for which the analyzer produced any
\* sample table non-decreasing in both fields, or none: while the sink is
\* paused the decoder does not read, so only seek moves the cursor.
InitSeek ==
    /\ seek_index \in {None} \cup { Some(idx) : idx \in MonotonicTables }
    /\ file_handle = Some("A")
    /\ duration = Some(AnalyzerDuration("A"))
    /\ sink = [SinkNew EXCEPT !.queue = <<"A">>, !.paused = TRUE]
    /\ cursor = 0
    /\ pc = "idle"
    /\ loading = "A"
    /\ ext = [ExtNone EXCEPT !.clone = "Ok", !.dur = "Ok",
                             !.durVal = Some(AnalyzerDuration("A")),
                             !.meta = "Ok", !.size = MAX_FILE_SIZE_FOR_SEEK_INDEX,
                             !.idx = IF seek_index = None THEN "Err" ELSE "Ok",
                             !.idxVal = seek_index,
                             !.handle = "Ok", !.rewind = "Ok", !.decode = "Ok"]
    /\ prior = [file_handle |-> None, seek_index |-> None, queue |-> <<>>]
    /\ result = [op |-> "pause", arg |-> 0, tag |-> "Ok", val |-> 0]
    /\ RegistryNew

NextSeek ==
    \/ \E t \in Times : seek(t)
    \/ elapsed

SpecSeek == InitSeek /\ [][NextSeek]_vars

\* The timestamp of the floor sample for `time`, 0 when there is none.
FloorSampleTime(idx, time) ==
    IF LastAtOrBefore(idx, 1, time) = 0 THEN 0
    ELSE idx[LastAtOrBefore(idx, 1, time)][1]

\* C20 as claimed: elapsed() right after a successful seek(t), when it
\* succeeds, returns a time <= t that is the floor sample's timestamp.
C20_ElapsedAfterSeekIsFloorTime ==
    [][(result.op = "seek" /\ result.tag = "Ok" /\ elapsed /\ result'.tag = "Ok")
         => /\ result'.val <= result.arg
            /\ result'.val = FloorSampleTime(seek_index[1], result.arg)]_vars

\* C20 amended: a successful seek(t) leaves the cursor at the floor sample's
\* offset (0 when t precedes every sample); elapsed() right after it returns
\* NotAbleToSeek if reading the cursor fails and otherwise the timestamp of
\* the last sample whose byte offset is <= that offset; this is the floor
\* sample's timestamp, hence <= t, when some sample has a timestamp <= t and
\* no later sample has the floor sample's byte offset.
C20_ElapsedAfterSeek ==
    /\ []((result.op = "seek" /\ result.tag = "Ok") =>
            cursor = FloorOffset(seek_index[1], result.arg))
    /\ [][(result.op = "seek" /\ result.tag = "Ok" /\ elapsed)
            => /\ result'.tag \in {"Ok", "NotAbleToSeek"}
               /\ result'.tag = "Ok" =>
                    LET idx == seek_index[1]
                        i == LastAtOrBefore(idx, 1, result.arg)
                    IN  /\ result'.val = FloorTime(idx, FloorOffset(idx, result.arg))
                        /\ (/\ i # 0
                            /\ \A j \in (i + 1)..Len(idx) : idx[j][2] # idx[i][2])
                           => /\ result'.val = idx[i][1]
                              /\ result'.val <= result.arg]_vars

\* C20 witness: on the table [(1,1),(2,2)] a seek moved the cursor to offset
\* 1 and elapsed() then reported time 1.
C20_Witness ==
    /\ result.op = "elapsed" /\ result.tag = "Ok"
    /\ seek_index = Some(<< <<1, 1>>, <<2, 2>> >>)
    /\ cursor = 1
    /\ result.val = 1

\* ------------------------------------------------------------------ C12
\* The operations the claim calls mutating, and its read-only observers.
MutatingOps == {"load_path", "load_file", "seek", "play", "pause", "stop", "set_volume"}

ObserverOps == {"duration", "volume", "is_seekable"}

Running(t) == thr[t].mode \in {"read", "write"}

\* C12: on one Player, a mutating operation never runs while another
\* operation (mutating or observing) runs on the same Player, under any
\* interleaving; and a caller that got the Player can start any read-only
\* observer whenever no mutating operation runs on it, however many
\* observers already run.
C12_MutationsExclusiveObserversShared ==
    /\ \A t \in Threads : \A u \in Threads \ {t} :
         (Running(t) /\ Running(u) /\ thr[t].ref = thr[u].ref)
            => (thr[t].op \notin MutatingOps /\ thr[u].op \notin MutatingOps)
    /\ \A t \in Threads :
         (thr[t].mode = "ref"
            /\ \A u \in Threads : (Running(u) /\ thr[u].ref = thr[t].ref)
                                     => thr[u].op \notin MutatingOps)
            => \A op \in ObserverOps : ENABLED player_call(t, op)

\* Two callers run read-only observers on the same Player at the same time.
C12_Witness ==
    \E t \in Threads : \E u \in Threads \ {t} :
        /\ Running(t) /\ Running(u)
        /\ thr[t].ref = thr[u].ref
        /\ thr[t].op \in ObserverOps /\ thr[u].op \in ObserverOps

\* ------------------------------------------------------------------ C13
TransportOps == {"play", "pause", "stop", "seek", "set_volume"}

\* C13: while a caller holds exclusive access to the Player at one key, for
\* instance for a whole load, every other caller can look up the Player at
\* another key, lock it for any transport operation unless a guard on that
\* same Player is held, and finish an operation it runs on it.
C13_DistinctKeysDoNotBlock ==
    \A a \in Keys : \A b \in Keys \ {a} : \A t \in Threads :
        (thr[t].mode = "write" /\ thr[t].ref = players[a] /\ players[b] # 0)
        => \A u \in Threads \ {t} :
             /\ thr[u].mode = "idle" => ENABLED get_player(u, b)
             /\ (thr[u].mode = "ref" /\ thr[u].ref = players[b]
                   /\ \A w \in Threads :
                        Running(w) => thr[w].ref # players[b])
                => \A op \in TransportOps : ENABLED player_call(u, op)
             /\ (Running(u) /\ thr[u].ref = players[b])
                => ENABLED player_return(u)

\* One caller is inside load_file on the Player at "a" while another runs
\* play on the Player at "b".
C13_Witness ==
    \E t \in Threads : \E u \in Threads \ {t} :
        /\ thr[t].mode = "write" /\ thr[t].ref = players["a"]
        /\ thr[t].op = "load_file"
        /\ thr[u].mode = "write" /\ thr[u].ref = players["b"]
        /\ thr[u].op = "play"

\* ------------------------------------------------------------------ C14
\* The callers holding an Arc of Player p obtained through get_player, and
\* those holding one in a listing.
Borrowers(p) ==
    { t \in Threads : thr[t].mode \in {"ref", "read", "write"} /\ thr[t].ref = p }

Listers(p) == { t \in Threads : \E e \in thr[t].snap : e[2] = p }

\* The Players the map holds.
Registered == { players[k] : k \in Keys } \ {0}

\* The references to Player p: the map's and the callers'.
Holders(p) ==
    Cardinality({ k \in Keys : players[k] = p })
        + Cardinality(Borrowers(p)) + Cardinality(Listers(p))

\* C14: removing a key, or overwriting it, drops the map's reference only: a
\* Player is counted once per holder (map entry, get_player borrower,
\* listing), it is destroyed exactly when it was created and nobody holds it
\* any more, so never while a borrower holds it, and the step that destroys
\* it is the one that drops its last reference.
C14_DestroyedWithLastReference ==
    /\ [](\A p \in PlayerIds :
            /\ strong[p] = Holders(p)
            /\ p \in dropped <=> (p < next_id /\ Holders(p) = 0))
    /\ [][\A p \in PlayerIds :
            (p \notin dropped /\ p \in dropped') => Holders(p) = 1]_vars

\* A caller still holds, alive, the Player that the last remove_player took
\* out of the map.
C14_Witness ==
    \E t \in Threads :
        /\ last.op = "remove" /\ last.old # 0
        /\ thr[t].mode = "ref" /\ thr[t].ref = last.old
        /\ last.old \notin Registered
        /\ last.old \notin dropped

\* ------------------------------------------------------------------ C15
\* C15: after add_player on a key, the key holds the Player just given and
\* the one it held before is out of the map; no two keys share a Player; a
\* step changes the entry of the key it names only; a get_player of that
\* key resolves to the new Player; and a Player that left the map never
\* comes back into it nor is newly handed out by get_player or list_players.
C15_AddOverwrites ==
    /\ [](/\ last.op = "add" => /\ players[last.key] = last.new
                                /\ last.new # last.old
                                /\ last.old \notin Registered
          /\ \A a \in Keys : \A b \in Keys \ {a} :
                players[a] # 0 => players[a] # players[b])
    /\ [][/\ \A k \in Keys : players'[k] # players[k] => last'.key = k
          /\ \A t \in Threads :
                (last.op = "add" /\ get_player(t, last.key))
                   => (thr'[t].mode = "ref" /\ thr'[t].ref = last.new)
          /\ \A p \in PlayerIds :
                (p < next_id /\ p \notin Registered)
                   => /\ p \notin Registered'
                      /\ \A t \in Threads :
                           /\ thr'[t].ref = p => thr[t].ref = p
                           /\ { e \in thr'[t].snap : e[2] = p } \subseteq thr[t].snap
         ]_vars

\* The last add_player overwrote a key that held a Player, and a caller got
\* the new Player from that key.
C15_Witness ==
    \E t \in Threads :
        /\ last.op = "add" /\ last.old # 0
        /\ thr[t].mode = "ref" /\ thr[t].ref = last.new

\* ------------------------------------------------------------------ C16
\* The map content a returned list stands for: the Player listed under each
\* key, 0 for a key the list does not hold.
ListContent(snap) ==
    [k \in Keys |->
        IF \E e \in snap : e[1] = k
        THEN (CHOOSE e \in snap : e[1] = k)[2]
        ELSE 0]

\* C16: the list that list_players returns equals the content the map had
\* at one moment of the call.
C16_ListIsSnapshot ==
    \A t \in Threads :
        thr[t].mode = "listed" => ListContent(thr[t].snap) \in thr[t].seen

====
